---- MODULE Spec2Model ----
(***************************************************************************)
(* Model of the LidarSpeaksVolumes demo programs:                          *)
(*   ConvexHull_pointcloud_demo.py, AlphaShape_pointcloud_demo.py and      *)
(*   pointcloud_viewer.py.                                                 *)
(*                                                                         *)
(* Numbers are fixed point.  Lengths are integers of a grid unit, a draw   *)
(* of np.random.rand is a quarter k/4 (k in 0..3), so that the angle       *)
(* 2*pi*k/4 has integral cosine and sine; volumes are integers counting    *)
(* sixths of a cubic grid unit (a tetrahedron's determinant).              *)
(***************************************************************************)
EXTENDS Integers, Sequences, FiniteSets, TLC

\* ------------------------------------------------------------------ bounds
\* Largest point count of the wall group tried (num_points_wall).
MaxWall == 2
\* Largest point count of the bottom and of the fill-surface group tried.
MaxCount == 3
\* The subsampling cap of estimate_volumes (5000 in the source), scaled to
\* the point counts of the model: the smallest cap whose subsample can
\* still span a volume.
SubsampleCap == 4

\* ----------------------------------------------------- program constants
\* np.random.seed(0)
Seed == 0

Radii == {0, 2}
Heights == {0, 4}
\* fill_ratio in halves: -1/2, 0, 1/2, 1, 3/2
FillRatios2 == {-1, 0, 1, 2, 3}

Unset == [unset |-> TRUE]

\* ------------------------------------------------------------- arithmetic
Sign(x) == IF x < 0 THEN -1 ELSE IF x = 0 THEN 0 ELSE 1

\* floor of the square root of n >= 0
ISqrt(n) == CHOOSE r \in 0..n : r * r <= n /\ (r + 1) * (r + 1) > n

\* cos and sin of 2*pi*k/4
Cos4(k) == CASE k = 0 -> 1 [] k = 1 -> 0 [] k = 2 -> -1 [] OTHER -> 0
Sin4(k) == CASE k = 0 -> 0 [] k = 1 -> 1 [] k = 2 -> 0 [] OTHER -> -1

\* round(v, 6) of a volume and round(v * 1000, 3) of its litres both keep
\* a thousandth of a litre, here one cubic grid unit: the nearest multiple
\* of six sixths.
Round(v) == ((v + 3) \div 6) * 6

\* math.pi * radius**2 * height, in sixths of a cubic unit (pi ~ 355/113)
AnalyticCapacity(radius, height) == (6 * 355 * radius * radius * height) \div 113

\* analytic_capacity * fill_ratio
AnalyticFill(capacity, ratio2) == (capacity * ratio2) \div 2

\* ------------------------------------------------------------ numpy.random
\* The module-wide generator every np.random call draws from and advances:
\* a linear congruential generator modulo 64 stands for numpy's Mersenne
\* twister.
RngStep(s) == (13 * s + 11) % 64

\* one draw of rand(): the quarter of [0, 1) the new state falls in
RandQ(s) == RngStep(s) \div 16

RECURSIVE RngAdvance(_, _)
RngAdvance(s, n) == IF n <= 0 THEN s ELSE RngAdvance(RngStep(s), n - 1)

\* np.random.rand(n): n draws in order
Rand(s, n) == [i \in 1..n |-> RandQ(RngAdvance(s, i - 1))]

\* a draw in 0..hi, as the shuffle of np.random.permutation makes it
RandInterval(s, hi) == (RngStep(s) \div 2) % (hi + 1)

Swap(x, i, j) == [x EXCEPT ![i] = x[j], ![j] = x[i]]

\* the shuffle: for i in reversed(range(1, n)): j = interval(i); swap
\* (positions here are 1-based: i + 1 and j + 1)
RECURSIVE Shuffle(_, _, _)
Shuffle(x, s, i) ==
  IF i < 1 THEN x
  ELSE Shuffle(Swap(x, i + 1, RandInterval(s, i) + 1), RngStep(s), i - 1)

\* np.random.choice(n, size, replace=False) = permutation(n)[:size];
\* the indices are 1-based here
Choice(s, n, size) == SubSeq(Shuffle([i \in 1..n |-> i], s, n - 1), 1, size)

ChoiceDraws(n) == IF n > 1 THEN n - 1 ELSE 0

\* ---------------------------------------------------------------- samplers
\* generate_cylinder_wall: theta = rand(n) * 2pi, z = rand(n) * height
CylinderWall(s, radius, height, n) ==
  LET theta == Rand(s, n)
      z == Rand(RngAdvance(s, n), n)
  IN [i \in 1..n |-> << radius * Cos4(theta[i]),
                        radius * Sin4(theta[i]),
                        (z[i] * height) \div 4 >>]

\* r = sqrt(rand) * radius
DiskRadius(k, radius) == Sign(radius) * ISqrt((k * radius * radius) \div 4)

\* the disk at height zc: r = sqrt(rand(n)) * radius, theta = rand(n) * 2pi
Disk(s, radius, zc, n) ==
  LET u == Rand(s, n)
      theta == Rand(RngAdvance(s, n), n)
  IN [i \in 1..n |-> << DiskRadius(u[i], radius) * Cos4(theta[i]),
                        DiskRadius(u[i], radius) * Sin4(theta[i]),
                        zc >>]

\* generate_bottom: the disk at z = 0
Bottom(s, radius, n) == Disk(s, radius, 0, n)

\* generate_fill_surface: the disk at z_fill = fill_ratio * height
FillSurface(s, radius, height, ratio2, n) ==
  Disk(s, radius, (ratio2 * height) \div 2, n)

\* -------------------------------------------------------------- geometry
Minus(a, b) == << a[1] - b[1], a[2] - b[2], a[3] - b[3] >>
Dot(a, b) == a[1] * b[1] + a[2] * b[2] + a[3] * b[3]
Cross(a, b) == << a[2] * b[3] - a[3] * b[2],
                  a[3] * b[1] - a[1] * b[3],
                  a[1] * b[2] - a[2] * b[1] >>
Det(a, b, c) == Dot(a, Cross(b, c))

LexLess(a, b) ==
  \/ a[1] < b[1]
  \/ a[1] = b[1] /\ a[2] < b[2]
  \/ a[1] = b[1] /\ a[2] = b[2] /\ a[3] < b[3]

PointSet(pts) == {pts[i] : i \in DOMAIN pts}

\* no four points span a volume: fewer than four points, or all coplanar
Degenerate(S) ==
  \A a \in S : \A b \in S : \A c \in S : \A d \in S :
    Det(Minus(b, a), Minus(c, a), Minus(d, a)) = 0

\* The triangles of the hull's boundary, oriented outwards: each facet (the
\* points of S in a supporting plane) is a convex polygon, cut into a fan
\* from its least vertex a; (b, c) runs over the polygon's edges, counter
\* clockwise about the outward normal n.
HullTriangles(S) ==
  {t \in S \X S \X S :
     LET a == t[1]
         b == t[2]
         c == t[3]
         n == Cross(Minus(b, a), Minus(c, a))
         P == {s \in S : Dot(n, Minus(s, a)) = 0}
     IN /\ n # <<0, 0, 0>>
        /\ \A s \in S : Dot(n, Minus(s, a)) <= 0
        /\ \A r \in P : r = a \/ LexLess(a, r)
        /\ \A r \in P :
             LET side == Dot(n, Cross(Minus(c, b), Minus(r, b)))
             IN /\ side >= 0
                /\ side = 0 => /\ Dot(Minus(r, b), Minus(c, b)) >= 0
                               /\ Dot(Minus(r, c), Minus(b, c)) >= 0}

RECURSIVE SumDet(_)
SumDet(T) ==
  IF T = {} THEN 0
  ELSE LET t == CHOOSE x \in T : TRUE
       IN Det(t[1], t[2], t[3]) + SumDet(T \ {t})

\* six times the volume enclosed by the convex hull of S
HullVolume(S) == SumDet(HullTriangles(S))

\* scipy.spatial.ConvexHull(pts): QhullError when the points span no
\* volume, else the hull with its volume
ConvexHull(pts) ==
  IF Degenerate(PointSet(pts))
  THEN [ok |-> FALSE, volume |-> 0]
  ELSE [ok |-> TRUE, volume |-> HullVolume(PointSet(pts))]

\* alphashape.alphashape(pts, alpha), by what the library does with it:
\* fewer than four points give the points' shapely convex hull, a geometry
\* with no volume attribute; coplanar points make the Delaunay step raise;
\* otherwise the construction raises or gives a mesh, whose volume depends
\* on the simplices alpha keeps: none of them, some, or all of the hull.
AlphaShapeOutcomes(pts) ==
  IF Len(pts) < 4 THEN {[kind |-> "novolume", volume |-> 0]}
  ELSE IF Degenerate(PointSet(pts)) THEN {[kind |-> "raise", volume |-> 0]}
  ELSE {[kind |-> "raise", volume |-> 0]}
       \cup {[kind |-> "mesh", volume |-> v] :
               v \in {0, HullVolume(PointSet(pts)) \div 2,
                      HullVolume(PointSet(pts))}}

\* ------------------------------------------------------------------ state
Pipelines == {"ConvexHull", "AlphaShape"}

VARIABLES
  program,                  \* which of the three programs runs
  bucket_radius, bucket_height, fill_ratio2,
  num_points_wall, num_points_bottom, num_points_fill_surface,
  rng,                      \* numpy's module-wide generator state
  pc,                       \* position in the program
  exc,                      \* the uncaught exception that ended it
  wall_pts, bottom_pts, fill_pts,
  empty_bucket, full_bucket,
  est,                      \* estimate_volumes' locals
  vols,                     \* estimate_volumes' result
  metadata,
  file,                     \* the JSON document on disk
  traces, labels, buttons   \* the viewer's figure

params == << program, bucket_radius, bucket_height, fill_ratio2,
             num_points_wall, num_points_bottom, num_points_fill_surface >>
points == << wall_pts, bottom_pts, fill_pts >>
composed == << empty_bucket, full_bucket >>
figure == << traces, labels, buttons >>
vars == << params, rng, pc, exc, points, composed, est, vols, metadata,
           file, figure >>

\* ------------------------------------------------------------ the viewer's input
SamplePoints == { <<>>, << <<1, 0, 0>> >>, << <<0, 1, 2>>, <<2, 0, 4>> >> }
PayloadKeys == {"empty_bucket", "fill_points", "fill_surface", "full_bucket"}
\* JSON documents a user may pick: each key absent, empty or non-empty
HandPayloads == UNION {[D -> SamplePoints] : D \in SUBSET PayloadKeys}

\* dict.get(key, default)
Get(d, key, default) == IF key \in DOMAIN d THEN d[key] ELSE default

\* ------------------------------------------------------------------- Init
\* np.random.seed(seed)
SeedState(seed) == seed % 64

InitCommon ==
  /\ rng = SeedState(Seed)
  /\ exc = "none"
  /\ wall_pts = <<>> /\ bottom_pts = <<>> /\ fill_pts = <<>>
  /\ empty_bucket = <<>> /\ full_bucket = <<>>
  /\ est = Unset /\ vols = Unset /\ metadata = Unset
  /\ traces = <<>> /\ labels = <<>> /\ buttons = <<>>

Init ==
  /\ InitCommon
  /\ \/ /\ program \in Pipelines
        /\ bucket_radius \in Radii
        /\ bucket_height \in Heights
        /\ fill_ratio2 \in FillRatios2
        /\ num_points_wall \in -1..MaxWall
        /\ num_points_bottom \in -1..MaxCount
        /\ num_points_fill_surface \in -1..MaxCount
        /\ file = Unset
        /\ pc = "start"
     \/ /\ program = "viewer"
        /\ bucket_radius = 0 /\ bucket_height = 0 /\ fill_ratio2 = 0
        /\ num_points_wall = 0 /\ num_points_bottom = 0
        /\ num_points_fill_surface = 0
        /\ file \in HandPayloads
        /\ pc = "pick"

\* --------------------------------------------------------- the pipelines
\* an uncaught exception ends the program
Crash(kind) == pc' = "crashed" /\ exc' = kind

\* wall_pts = generate_cylinder_wall(...); np.random.rand(n) with n < 0
\* raises ValueError
GenerateWall ==
  /\ pc = "start"
  /\ IF num_points_wall < 0
     THEN Crash("ValueError") /\ UNCHANGED << rng, wall_pts >>
     ELSE /\ wall_pts' = CylinderWall(rng, bucket_radius, bucket_height,
                                      num_points_wall)
          /\ rng' = RngAdvance(rng, 2 * num_points_wall)
          /\ pc' = "wall"
          /\ exc' = exc
  /\ UNCHANGED << params, bottom_pts, fill_pts, composed, est, vols,
                  metadata, file, figure >>

\* bottom_pts = generate_bottom(...)
GenerateBottom ==
  /\ pc = "wall"
  /\ IF num_points_bottom < 0
     THEN Crash("ValueError") /\ UNCHANGED << rng, bottom_pts >>
     ELSE /\ bottom_pts' = Bottom(rng, bucket_radius, num_points_bottom)
          /\ rng' = RngAdvance(rng, 2 * num_points_bottom)
          /\ pc' = "bottom"
          /\ exc' = exc
  /\ UNCHANGED << params, wall_pts, fill_pts, composed, est, vols,
                  metadata, file, figure >>

\* fill_pts = generate_fill_surface(...)
GenerateFillSurface ==
  /\ pc = "bottom"
  /\ IF num_points_fill_surface < 0
     THEN Crash("ValueError") /\ UNCHANGED << rng, fill_pts >>
     ELSE /\ fill_pts' = FillSurface(rng, bucket_radius, bucket_height,
                                     fill_ratio2, num_points_fill_surface)
          /\ rng' = RngAdvance(rng, 2 * num_points_fill_surface)
          /\ pc' = "fill"
          /\ exc' = exc
  /\ UNCHANGED << params, wall_pts, bottom_pts, composed, est, vols,
                  metadata, file, figure >>

\* np.vstack((wall_pts, bottom_pts))
EmptyBucket(wall, bottom) == wall \o bottom

\* np.vstack((empty_bucket, fill_pts))
FullBucket(empty, fill) == empty \o fill

Compose ==
  /\ pc = "fill"
  /\ empty_bucket' = EmptyBucket(wall_pts, bottom_pts)
  /\ full_bucket' = FullBucket(empty_bucket', fill_pts)
  /\ pc' = "composed"
  /\ UNCHANGED << params, rng, exc, points, est, vols, metadata, file,
                  figure >>

\* the capacity hull taken over the fill region alone
FullBucketPtsDropWall(bottom, wall, fill) == bottom \o fill

\* np.vstack((bottom_pts, wall_pts, fill_pts)): the capacity hull's input
FullBucketPts(bottom, wall, fill) == bottom \o wall \o fill

\* np.vstack((bottom_pts, fill_pts))
FillRegion(bottom, fill) == bottom \o fill

\* estimate_volumes of ConvexHull_pointcloud_demo.py
EstimateVolumesConvexHull ==
  /\ pc = "composed" /\ program = "ConvexHull"
  /\ LET analytic_capacity == AnalyticCapacity(bucket_radius, bucket_height)
         analytic_fill == AnalyticFill(analytic_capacity, fill_ratio2)
         full_bucket_pts == FullBucketPts(bottom_pts, wall_pts, fill_pts)
         fill_region == FillRegion(bottom_pts, fill_pts)
         hull_full == ConvexHull(full_bucket_pts)
         hull_fill == ConvexHull(fill_region)
     IN /\ est' = [full_bucket_pts |-> full_bucket_pts,
                   fill_region |-> fill_region,
                   idx |-> <<>>, shape |-> "none"]
        /\ IF ~hull_full.ok \/ ~hull_fill.ok
           THEN Crash("QhullError") /\ vols' = vols
           ELSE /\ vols' = [analytic_capacity_m3 |-> analytic_capacity,
                            analytic_fill_m3 |-> analytic_fill,
                            convex_hull_full_m3 |-> hull_full.volume,
                            convex_hull_fill_m3 |-> hull_fill.volume]
                /\ pc' = "estimated"
                /\ exc' = exc
  /\ UNCHANGED << params, rng, points, composed, metadata, file, figure >>

\* the subsampling of the fill region: more than the cap keeps cap rows
\* drawn by np.random.choice
SubsampleIdx(s, n) ==
  IF n > SubsampleCap THEN Choice(s, n, SubsampleCap) ELSE <<>>

Subsample(region, idx) ==
  IF Len(region) > SubsampleCap
  THEN [k \in 1..Len(idx) |-> region[idx[k]]]
  ELSE region

\* what the try/except of estimate_volumes makes of alphashape's outcome:
\* a mesh's volume, 0.0 for a shape without one, and on an exception the
\* convex hull's volume of the same points (which raises in its turn on
\* points that span no volume)
AlphaVolume(outcome, region) ==
  CASE outcome.kind = "mesh" -> [ok |-> TRUE, volume |-> outcome.volume]
    [] outcome.kind = "novolume" -> [ok |-> TRUE, volume |-> 0]
    [] OTHER -> ConvexHull(region)

\* estimate_volumes of AlphaShape_pointcloud_demo.py
EstimateVolumesAlphaShape ==
  /\ pc = "composed" /\ program = "AlphaShape"
  /\ LET analytic_capacity == AnalyticCapacity(bucket_radius, bucket_height)
         analytic_fill == AnalyticFill(analytic_capacity, fill_ratio2)
         region == FillRegion(bottom_pts, fill_pts)
         idx == SubsampleIdx(rng, Len(region))
         fill_region == Subsample(region, idx)
         full_bucket_pts == FullBucketPts(bottom_pts, wall_pts, fill_pts)
         hull_full == ConvexHull(full_bucket_pts)
     IN /\ rng' = IF Len(region) > SubsampleCap
                  THEN RngAdvance(rng, ChoiceDraws(Len(region)))
                  ELSE rng
        /\ \E outcome \in AlphaShapeOutcomes(fill_region) :
             LET alpha_vol == AlphaVolume(outcome, fill_region)
             IN /\ est' = [full_bucket_pts |-> full_bucket_pts,
                           fill_region |-> fill_region,
                           idx |-> idx, shape |-> outcome.kind]
                /\ IF ~alpha_vol.ok \/ ~hull_full.ok
                   THEN Crash("QhullError") /\ vols' = vols
                   ELSE /\ vols' = [analytic_capacity_m3 |-> analytic_capacity,
                                    analytic_fill_m3 |-> analytic_fill,
                                    convex_hull_full_m3 |-> hull_full.volume,
                                    alpha_shape_fill_m3 |-> alpha_vol.volume]
                        /\ pc' = "estimated"
                        /\ exc' = exc
  /\ UNCHANGED << params, points, composed, metadata, file, figure >>

\* the metadata dictionary: the parameters and each volume rounded, in
\* cubic metres and in litres
Metadata(v) ==
  [k \in {"bucket_radius", "bucket_height", "fill_ratio", "num_points_wall",
          "num_points_bottom", "num_points_fill_surface"}
         \cup DOMAIN v
         \cup {"analytic_capacity_liters", "analytic_fill_liters",
               "convex_hull_full_liters"}
         \cup (IF "alpha_shape_fill_m3" \in DOMAIN v
               THEN {"alpha_shape_fill_liters"}
               ELSE {"convex_hull_fill_liters"}) |->
     CASE k = "bucket_radius" -> bucket_radius
       [] k = "bucket_height" -> bucket_height
       [] k = "fill_ratio" -> fill_ratio2
       [] k = "num_points_wall" -> num_points_wall
       [] k = "num_points_bottom" -> num_points_bottom
       [] k = "num_points_fill_surface" -> num_points_fill_surface
       [] k = "analytic_capacity_liters" -> Round(v.analytic_capacity_m3)
       [] k = "analytic_fill_liters" -> Round(v.analytic_fill_m3)
       [] k = "convex_hull_full_liters" -> Round(v.convex_hull_full_m3)
       [] k = "convex_hull_fill_liters" -> Round(v.convex_hull_fill_m3)
       [] k = "alpha_shape_fill_liters" -> Round(v.alpha_shape_fill_m3)
       [] OTHER -> Round(v[k])]

\* the JSON payload
Payload(meta, empty, fill, full) ==
  [metadata |-> meta, empty_bucket |-> empty, fill_surface |-> fill,
   full_bucket |-> full]

\* metadata = {...}; data = {...}; json.dump(data, f)
SaveReport ==
  /\ pc = "estimated"
  /\ metadata' = Metadata(vols)
  /\ file' = Payload(metadata', empty_bucket, fill_pts, full_bucket)
  /\ pc' = "done"
  /\ UNCHANGED << params, rng, exc, points, composed, est, vols, figure >>

\* -------------------------------------------------------------- the viewer
Column(pts, i) == [k \in 1..Len(pts) |-> pts[k][i]]

\* xs, ys, zs = zip(*pts); go.Scatter3d(x=xs, y=ys, z=zs, ...): unpacking
\* an empty array raises ValueError
Scatter3d(pts, name, color) ==
  [ok |-> pts # <<>>, x |-> Column(pts, 1), y |-> Column(pts, 2),
   z |-> Column(pts, 3), name |-> name, color |-> color, visible |-> TRUE]

\* if pts: traces.append(Scatter3d(...)); labels.append(label)
AddGroup(acc, pts, label, color) ==
  IF acc.exc # "none" \/ pts = <<>> THEN acc
  ELSE LET t == Scatter3d(pts, label, color)
       IN IF t.ok
          THEN [acc EXCEPT !.traces = Append(@, t),
                           !.labels = Append(@, label)]
          ELSE [acc EXCEPT !.exc = "ValueError"]

\* the key main() reads the fill array under
FillKey == "fill_points"

\* the three groups of main(), in order
ViewerGroups(data) ==
  AddGroup(
    AddGroup(
      AddGroup([traces |-> <<>>, labels |-> <<>>, exc |-> "none"],
               Get(data, "empty_bucket", <<>>), "Empty Bucket", "blue"),
      Get(data, FillKey, <<>>), "Fill Points", "orange"),
    Get(data, "full_bucket", <<>>), "Full Bucket", "green")

\* the button's own trace taken one too far
VisibleShifted(n, i) == [j \in 1..n |-> j = i + 1]

\* vis = [False]*n; vis[i] = True
Visible(n, i) == [j \in 1..n |-> j = i]

\* the dropdown: "All", then one button per label
Buttons(n, labs) ==
  << [label |-> "All", visible |-> [j \in 1..n |-> TRUE]] >>
  \o [i \in 1..Len(labs) |-> [label |-> labs[i], visible |-> Visible(n, i)]]

\* main() of pointcloud_viewer.py: on a picked document, or on the one a
\* pipeline has just written
ViewerMain ==
  /\ pc \in {"pick", "done"}
  /\ \E selected \in BOOLEAN :
       IF ~selected
       THEN /\ pc' = "no_file"
            /\ UNCHANGED << exc, figure >>
       ELSE LET g == ViewerGroups(file)
            IN IF g.exc # "none"
               THEN Crash(g.exc) /\ UNCHANGED figure
               ELSE /\ traces' = g.traces
                    /\ labels' = g.labels
                    /\ buttons' = Buttons(Len(g.traces), g.labels)
                    /\ pc' = "shown"
                    /\ exc' = exc
  /\ UNCHANGED << params, rng, points, composed, est, vols, metadata, file >>

Next ==
  \/ GenerateWall
  \/ GenerateBottom
  \/ GenerateFillSurface
  \/ Compose
  \/ EstimateVolumesConvexHull
  \/ EstimateVolumesAlphaShape
  \/ SaveReport
  \/ ViewerMain

Spec == Init /\ [][Next]_vars

\* ================================================================ claims
Count(seq, p) == Cardinality({i \in DOMAIN seq : seq[i] = p})

\* the same points, each as many times, whatever the order
SameCollection(a, b) ==
  /\ Len(a) = Len(b)
  /\ \A p \in PointSet(a) \cup PointSet(b) : Count(a, p) = Count(b, p)

Estimated == pc \in {"estimated", "done", "shown", "no_file"}

\* C1: in the alpha-shape estimator, whenever alpha-shape construction
\* raised or the shape has no measurable volume, the value reported as the
\* fill estimate is the convex-hull volume of the same (subsampled) fill
\* region, never another value such as 0.
C1_FallbackIsConvexHull ==
  (/\ program = "AlphaShape"
   /\ Estimated
   /\ \/ est.shape \in {"raise", "novolume"}
      \/ est.shape = "mesh" /\ vols.alpha_shape_fill_m3 = 0)
  => /\ ConvexHull(est.fill_region).ok
     /\ vols.alpha_shape_fill_m3 = ConvexHull(est.fill_region).volume

\* C2: an estimator that hits a degenerate-hull condition does not prevent
\* the report: the report is still produced, with the analytic capacity
\* and the analytic fill in it.
C2_FailureIsolated ==
  exc = "QhullError"
  => /\ file # Unset
     /\ {"analytic_capacity_m3", "analytic_fill_m3"} \subseteq DOMAIN file.metadata

InvalidConfig ==
  /\ program \in Pipelines
  /\ \/ bucket_radius <= 0
     \/ bucket_height <= 0
     \/ fill_ratio2 < 0
     \/ fill_ratio2 > 2
     \/ num_points_wall < 0
     \/ num_points_bottom < 0
     \/ num_points_fill_surface < 0

\* C3: with radius <= 0, height <= 0, fill ratio outside [0, 1] or a
\* negative point count, no random number is drawn and no point, estimate
\* or report is produced.
C3_RejectedBeforeSampling ==
  InvalidConfig
  => /\ rng = SeedState(Seed)
     /\ wall_pts = <<>> /\ bottom_pts = <<>> /\ fill_pts = <<>>
     /\ vols = Unset
     /\ file = Unset

\* C4: a degenerate point set handed to an estimator never crashes the
\* invocation, and the alpha-shape estimator given fewer than 4 points
\* after subsampling returns no number.
C4_DegenerateReported ==
  (program \in Pipelines /\ est # Unset)
  => /\ (\/ Degenerate(PointSet(est.full_bucket_pts))
         \/ Degenerate(PointSet(est.fill_region)))
        => pc # "crashed"
     /\ (program = "AlphaShape" /\ Len(est.fill_region) < 4) => vols = Unset

\* C5: the points of a sampler call depend only on the call's parameters
\* and the seed, not on the sampling calls that ran before it: the bottom
\* and the fill-surface points are those the same call returns right after
\* seeding.
C5_SamplerIndependent ==
  /\ pc \in {"bottom", "fill", "composed", "estimated", "done"}
     => bottom_pts = Bottom(SeedState(Seed), bucket_radius, num_points_bottom)
  /\ pc \in {"fill", "composed", "estimated", "done"}
     => fill_pts = FillSurface(SeedState(Seed), bucket_radius, bucket_height,
                               fill_ratio2, num_points_fill_surface)

\* C6: a fill region larger than the cap gets the same subsample from every
\* invocation of the estimator on it, also from the next invocation in a
\* row (which draws from the generator as this one left it).
C6_SubsampleDeterministic ==
  (/\ program = "AlphaShape"
   /\ pc \in {"estimated", "done"}
   /\ Len(FillRegion(bottom_pts, fill_pts)) > SubsampleCap)
  => est.idx = SubsampleIdx(rng, Len(FillRegion(bottom_pts, fill_pts)))

\* C7: a report whose alpha-shape fill value came from the convex-hull
\* fallback differs from every report a successful alpha-shape
\* construction on the same points writes.
C7_FallbackRecorded ==
  (program = "AlphaShape" /\ pc = "done" /\ est.shape = "raise")
  => \A o \in AlphaShapeOutcomes(est.fill_region) :
       o.kind = "mesh"
       => Metadata([vols EXCEPT !.alpha_shape_fill_m3 = o.volume]) # metadata

\* C8: empty_bucket is wall followed by bottom, fill_surface the fill
\* points as sampled, full_bucket is empty_bucket followed by fill_surface;
\* no point is dropped or duplicated, and the capacity hull is computed
\* over the same collection of points as full_bucket.
C8_Composition ==
  /\ (program \in Pipelines /\ (Estimated \/ pc = "composed" \/ est # Unset))
     => /\ empty_bucket = wall_pts \o bottom_pts
        /\ full_bucket = wall_pts \o bottom_pts \o fill_pts
        /\ Len(empty_bucket) = num_points_wall + num_points_bottom
        /\ Len(full_bucket) = num_points_wall + num_points_bottom
                              + num_points_fill_surface
  /\ (program \in Pipelines /\ est # Unset)
     => SameCollection(est.full_bucket_pts, full_bucket)
  /\ (program \in Pipelines /\ file # Unset)
     => /\ file.empty_bucket = wall_pts \o bottom_pts
        /\ file.fill_surface = fill_pts
        /\ file.full_bucket = wall_pts \o bottom_pts \o fill_pts

\* a report of a run with all three groups non-empty whose fill region was
\* subsampled
C8_Witness ==
  /\ program = "AlphaShape" /\ pc = "done"
  /\ wall_pts # <<>> /\ bottom_pts # <<>> /\ fill_pts # <<>>
  /\ est.idx # <<>>
  /\ Len(est.fill_region) < Len(FillRegion(bottom_pts, fill_pts))
  /\ Len(file.full_bucket) = Len(est.full_bucket_pts)

\* C9: for a payload a demo pipeline wrote with non-empty groups, and for
\* any payload that holds the fill array under fill_surface or under
\* fill_points, the viewer builds a trace for the fill array.
C9_ViewerReadsFill ==
  (/\ pc = "shown"
   /\ \/ Get(file, "fill_surface", <<>>) # <<>>
      \/ Get(file, "fill_points", <<>>) # <<>>)
  => \E i \in DOMAIN traces : traces[i].name = "Fill Points"

\* the labels of the non-empty arrays among a, b, c, in that order
Labelled(a, b, c) ==
  (IF a # <<>> THEN << "Empty Bucket" >> ELSE <<>>)
  \o (IF b # <<>> THEN << "Fill Points" >> ELSE <<>>)
  \o (IF c # <<>> THEN << "Full Bucket" >> ELSE <<>>)

ArrayOf(label) ==
  CASE label = "Empty Bucket" -> Get(file, "empty_bucket", <<>>)
    [] label = "Fill Points" -> Get(file, "fill_points", <<>>)
    [] OTHER -> Get(file, "full_bucket", <<>>)

\* C10: whichever of the three arrays the viewer reads (empty_bucket,
\* fill_points, full_bucket) are absent, empty or non-empty, it builds one
\* trace per non-empty array, labels in the same order, 1 + n buttons, "All"
\* showing all n traces and each group's button exactly its own trace; it
\* never unpacks an absent or empty array.
C10_ViewerTolerant ==
  /\ ~(pc = "crashed" /\ file # Unset)
  /\ pc = "shown"
     => LET n == Len(traces)
        IN /\ labels = Labelled(Get(file, "empty_bucket", <<>>),
                                Get(file, "fill_points", <<>>),
                                Get(file, "full_bucket", <<>>))
           /\ n = Len(labels)
           /\ \A i \in 1..n :
                /\ traces[i].name = labels[i]
                /\ ArrayOf(labels[i]) # <<>>
                /\ traces[i].x = Column(ArrayOf(labels[i]), 1)
                /\ traces[i].y = Column(ArrayOf(labels[i]), 2)
                /\ traces[i].z = Column(ArrayOf(labels[i]), 3)
           /\ Len(buttons) = 1 + n
           /\ buttons[1].label = "All"
           /\ buttons[1].visible = [j \in 1..n |-> TRUE]
           /\ \A i \in 1..n :
                /\ buttons[1 + i].label = labels[i]
                /\ Len(buttons[1 + i].visible) = n
                /\ {j \in 1..n : buttons[1 + i].visible[j]} = {i}

\* a document with one array absent, one empty and one non-empty, shown
C10_Witness ==
  /\ program = "viewer" /\ pc = "shown"
  /\ "empty_bucket" \notin DOMAIN file
  /\ "fill_points" \in DOMAIN file /\ file.fill_points = <<>>
  /\ "full_bucket" \in DOMAIN file /\ Len(file.full_bucket) = 2
  /\ Len(traces) = 1 /\ Len(buttons) = 2
====
